---- MODULE Spec2Model ----
(***************************************************************************)
(* Model of pageload-summary/summarize.py: organize_data, geo_mean,        *)
(* temporal_aggregation and summarize.                                     *)
(*                                                                         *)
(* Strings.  A push timestamp "YYYY-mm-dd HH:MM" is modelled by the part   *)
(* of it that varies, "dd HH", as a sequence of character codes: a digit   *)
(* is its value 0..9 and the space is SP, which sorts below every digit as *)
(* in ASCII.  "03 00" is <<0,3,SP,0,0>> and the unpadded "3 0", which      *)
(* strptime also accepts, is <<3,SP,0>>.  A datetime is the number of      *)
(* hours since day 1, 00:00; a timedelta is a number of hours.             *)
(***************************************************************************)
EXTENDS Integers, Sequences, FiniteSets, TLC

VARIABLES
    \* temporal_aggregation, run on its own
    times,        \* argument: the collection of timestamp strings
    span,         \* argument: timespan, in hours
    walk,         \* the part of sorted(times)[::-1] not yet visited
    curr,         \* the open bucket (datetimes, in the order added)
    aggr_times,   \* the closed buckets (lists of timestamp strings)
    result,       \* the returned list
    apc,          \* position: "idle", "start", "walk", "done"
    \* summarize(data, platforms, timespan)
    data,         \* the CSV rows, header first
    platforms,    \* the --platforms filter
    timespan,     \* the --timespan option
    row,          \* index in data of the next entry of the loop of organize_data
    org_data,     \* the Organized Data Tree
    summary,      \* the Summary Tree
    error,        \* "none", or the exception that ended the run
    reported,     \* possible_platforms of the raised Exception
    pc            \* position: "idle", "organize", "organized", "done", "failed"

aggrVars == <<times, span, walk, curr, aggr_times, result, apc>>
sumVars == <<data, platforms, timespan, row, org_data, summary, error, reported, pc>>
vars == <<times, span, walk, curr, aggr_times, result, apc,
          data, platforms, timespan, row, org_data, summary, error, reported, pc>>

----------------------------------------------------------------------------
(* Bounds of the model *)

MaxDay == 3
MaxTimes == 4
MaxOrgRows == 2
MaxSumRows == 3

----------------------------------------------------------------------------
(* Sequences and strings *)

SP == -1

RECURSIVE Reverse(_)
Reverse(s) == IF s = <<>> THEN <<>> ELSE Append(Reverse(Tail(s)), Head(s))

\* Python's str < str: lexicographic on character codes, a proper prefix first.
RECURSIVE StrLess(_, _)
StrLess(s, t) ==
    IF t = <<>> THEN FALSE
    ELSE IF s = <<>> THEN TRUE
    ELSE IF Head(s) # Head(t) THEN Head(s) < Head(t)
    ELSE StrLess(Tail(s), Tail(t))

\* sorted(S) for a set S of strings.
RECURSIVE SortedStrs(_)
SortedStrs(S) ==
    IF S = {} THEN <<>>
    ELSE LET m == CHOOSE x \in S : \A y \in S \ {x} : StrLess(x, y)
         IN  <<m>> \o SortedStrs(S \ {m})

RECURSIVE DigitsVal(_)
DigitsVal(s) == IF s = <<>> THEN 0 ELSE DigitsVal(SubSeq(s, 1, Len(s) - 1)) * 10 + s[Len(s)]

\* datetime.datetime.strptime(t, "%Y-%m-%d %H:%M"): %d and %H take one or two digits.
Strptime(t) ==
    LET k == CHOOSE i \in 1..Len(t) : t[i] = SP
    IN  (DigitsVal(SubSeq(t, 1, k - 1)) - 1) * 24 + DigitsVal(SubSeq(t, k + 1, Len(t)))

\* c.strftime("%Y-%m-%d %H:%M"): always two digits for the day and for the hour.
Strftime(dt) ==
    LET d == (dt \div 24) + 1
        h == dt % 24
    IN  <<d \div 10, d % 10, SP, h \div 10, h % 10>>

----------------------------------------------------------------------------
(* temporal_aggregation *)

\* WalkStep with the comparison <= in place of <.
WalkStepLe(c, a, t, diff) ==
    LET dt == Strptime(t) IN
    IF Len(c) = 0 THEN [curr |-> Append(c, dt), aggr |-> a]
    ELSE IF c[1] - dt <= diff THEN [curr |-> Append(c, dt), aggr |-> a]
    ELSE [curr |-> <<dt>>, aggr |-> Append(a, [i \in 1..Len(c) |-> Strftime(c[i])])]

\* One iteration of the loop over sorted(times)[::-1] (lines 153-162).
WalkStep(c, a, t, diff) ==
    LET dt == Strptime(t) IN
    IF Len(c) = 0 THEN [curr |-> Append(c, dt), aggr |-> a]
    ELSE IF c[1] - dt < diff THEN [curr |-> Append(c, dt), aggr |-> a]
    ELSE [curr |-> <<dt>>, aggr |-> Append(a, [i \in 1..Len(c) |-> Strftime(c[i])])]

\* The value of the return statement: aggr_times[::-1] (curr is not part of it).
Returned(a, c) == Reverse(a)

RECURSIVE WalkAll(_, _, _, _)
WalkAll(w, c, a, diff) ==
    IF w = <<>> THEN Returned(a, c)
    ELSE LET s == WalkStep(c, a, Head(w), diff)
         IN  WalkAll(Tail(w), s.curr, s.aggr, diff)

\* temporal_aggregation(times, timespan) as a function of its arguments.
temporal_aggregation(ts, hours) == WalkAll(Reverse(SortedStrs(ts)), <<>>, <<>>, hours)

\* The timestamp strings: days 1..MaxDay at 00:00 and 23:00 in the documented
\* zero-padded form, and each day at 0:00 with the hour not padded.
Canonical == { Strftime((d - 1) * 24 + h) : d \in 1..MaxDay, h \in {0, 23} }
Unpadded == { <<d \div 10, d % 10, SP, 0>> : d \in 1..MaxDay }
TimeStrings == Canonical \cup Unpadded
Timespans == {12, 24}

IsCanonical(t) == Strftime(Strptime(t)) = t

SumIdle ==
    /\ data = <<>> /\ platforms = <<>> /\ timespan = 24 /\ row = 0
    /\ org_data = <<>> /\ summary = <<>> /\ error = "none" /\ reported = {}
    /\ pc = "idle"

AggrInit ==
    /\ times \in { S \in SUBSET TimeStrings : Cardinality(S) <= MaxTimes }
    /\ span \in Timespans
    /\ walk = <<>> /\ curr = <<>> /\ aggr_times = <<>> /\ result = <<>>
    /\ apc = "start"
    /\ SumIdle

\* for t in sorted(times)[::-1]: the iteration order is fixed
AggrSort ==
    /\ apc = "start"
    /\ walk' = Reverse(SortedStrs(times))
    /\ apc' = "walk"
    /\ UNCHANGED <<times, span, curr, aggr_times, result>>
    /\ UNCHANGED sumVars

\* one iteration of the loop
AggrWalk ==
    /\ apc = "walk"
    /\ walk # <<>>
    /\ LET s == WalkStep(curr, aggr_times, Head(walk), span)
       IN  /\ curr' = s.curr
           /\ aggr_times' = s.aggr
    /\ walk' = Tail(walk)
    /\ UNCHANGED <<times, span, result, apc>>
    /\ UNCHANGED sumVars

\* return aggr_times[::-1]
AggrReturn ==
    /\ apc = "walk"
    /\ walk = <<>>
    /\ result' = Returned(aggr_times, curr)
    /\ apc' = "done"
    /\ UNCHANGED <<times, span, walk, curr, aggr_times>>
    /\ UNCHANGED sumVars

AggrNext == AggrSort \/ AggrWalk \/ AggrReturn

SpecAggr == AggrInit /\ [][AggrNext]_vars

----------------------------------------------------------------------------
(* organize_data *)

\* The columns of the CSV export, in the order of the header row.
Header == <<"platform", "suite", "extra_options", "tags", "value",
            "push_timestamp", "application">>

\* A data row.  The extra_options cell is held as the list of its
\* space-separated tokens (what .split() makes of it) and the value cell as
\* the number float() makes of it.
Row(platform, suite, extras, value, time, app) ==
    <<platform, suite, extras, <<>>, value, time, app>>

Range(s) == { s[i] : i \in 1..Len(s) }

\* get_data_ind(data, fieldname): the first column of the header whose name
\* contains fieldname.  No name of Header contains another, so "contains" is
\* equality on these names; 0 stands for None.
get_data_ind(d, fieldname) ==
    IF \E i \in 1..Len(d[1]) : d[1][i] = fieldname
    THEN CHOOSE i \in 1..Len(d[1]) :
            d[1][i] = fieldname /\ \A j \in 1..(i - 1) : d[1][j] # fieldname
    ELSE 0

platform_ind == get_data_ind(data, "platform")
test_ind == get_data_ind(data, "suite")
extra_ind == get_data_ind(data, "extra_options")
val_ind == get_data_ind(data, "value")
time_ind == get_data_ind(data, "push_timestamp")
app_ind == get_data_ind(data, "application")

\* The option tokens of the model in the order Python's string comparison
\* gives them; sorted(extras) sorts by the place in this list.
TokenOrder == <<"a", "a-b", "b", "cold", "fission", "live", "nocondprof",
                "visual", "warm", "webrender">>
Rank(tok) == CHOOSE i \in 1..Len(TokenOrder) : TokenOrder[i] = tok

RECURSIVE InsertSorted(_, _)
InsertSorted(s, tok) ==
    IF s = <<>> THEN <<tok>>
    ELSE IF Rank(tok) < Rank(Head(s)) THEN <<tok>> \o s
    ELSE <<Head(s)>> \o InsertSorted(Tail(s), tok)

RECURSIVE Sorted(_)
Sorted(s) == IF s = <<>> THEN <<>> ELSE InsertSorted(Sorted(SubSeq(s, 1, Len(s) - 1)), s[Len(s)])

\* list.remove(x): drops the first occurrence.
RECURSIVE Remove(_, _)
Remove(s, x) ==
    IF s = <<>> THEN <<>>
    ELSE IF Head(s) = x THEN Tail(s)
    ELSE <<Head(s)>> \o Remove(Tail(s), x)

\* "-".join(s)
RECURSIVE Join(_)
Join(s) ==
    IF s = <<>> THEN ""
    ELSE IF Len(s) = 1 THEN s[1]
    ELSE s[1] \o "-" \o Join(Tail(s))

\* str.replace(old, new) on strings held as character sequences.
RECURSIVE Replace(_, _, _)
Replace(s, old, new) ==
    IF Len(s) < Len(old) THEN s
    ELSE IF SubSeq(s, 1, Len(old)) = old
         THEN new \o Replace(SubSeq(s, Len(old) + 1, Len(s)), old, new)
         ELSE <<Head(s)>> \o Replace(Tail(s), old, new)

\* The variant label is held as a character sequence.
S_e10s == <<"e", "1", "0", "s">>
S_fission_dash == <<"f", "i", "s", "s", "i", "o", "n", "-">>
S_fission == <<"f", "i", "s", "s", "i", "o", "n">>
S_webrender == <<"w", "e", "b", "r", "e", "n", "d", "e", "r">>

\* Variants with "fission" appended in place of "fission-".
VariantsNoDash(extras) ==
    LET v1 == S_e10s \o (IF "fission" \in Range(extras) THEN S_fission ELSE <<>>)
        v2 == v1 \o (IF "webrender" \in Range(extras) THEN S_webrender ELSE <<>>)
    IN  IF v2 # S_e10s THEN Replace(v2, S_e10s, <<>>) ELSE v2

\* lines 74, 89-92, 101-102
Variants(extras) ==
    LET v1 == S_e10s \o (IF "fission" \in Range(extras) THEN S_fission_dash ELSE <<>>)
        v2 == v1 \o (IF "webrender" \in Range(extras) THEN S_webrender ELSE <<>>)
    IN  IF v2 # S_e10s THEN Replace(v2, S_e10s, <<>>) ELSE v2

\* lines 75, 86-87
PlType(extras) == IF "warm" \in Range(extras) THEN "warm" ELSE "cold"

\* lines 94-99: extras after the two normalising statements
Normalized(extras) ==
    LET e1 == IF "nocondprof" \in Range(extras) THEN Remove(extras, "nocondprof") ELSE extras
    IN  IF "visual" \notin Range(e1) THEN Append(e1, "visual") ELSE e1

\* line 104
ModTestName(test, app, extras) == test \o "-" \o app \o Join(Sorted(extras))

\* Skipped without the test for "live".
SkippedNoLive(entry) ==
    LET extras == entry[extra_ind] IN
    \/ platforms # <<>> /\ entry[platform_ind] \notin Range(platforms)
    \/ "warm" \notin Range(extras) /\ "cold" \notin Range(extras)

\* lines 66-68, 79-84: the entry is passed over by a continue
Skipped(entry) ==
    LET extras == entry[extra_ind] IN
    \/ platforms # <<>> /\ entry[platform_ind] \notin Range(platforms)
    \/ "warm" \notin Range(extras) /\ "cold" \notin Range(extras)
    \/ "live" \in Range(extras)

\* The path platform, app, variants, pl_type, mod_test_name of the setdefault
\* chain of lines 105-115.  org_data is held as a function from such paths to
\* leaves [extra_options, values]: the chain creates a whole path at once, so
\* no level of the tree exists without a leaf below it.
KeyOf(entry) ==
    LET extras == entry[extra_ind] IN
    <<entry[platform_ind], entry[app_ind], Variants(extras), PlType(extras),
      ModTestName(entry[test_ind], entry[app_ind], Normalized(extras))>>

\* SameOptions with the assert compiled away.
SameOptionsUnchecked(leaf, extras) == TRUE

\* line 119: the assert of an existing leaf (a comparison of sets)

SameOptions(leaf, extras) == leaf.extra_options = Range(Normalized(extras))

\* lines 118-125 on a tree where the assert passes
Stored(tree, entry) ==
    LET k == KeyOf(entry)
        t == entry[time_ind]
        v == entry[val_ind]
        old == IF k \in DOMAIN tree
               THEN tree[k]
               ELSE [extra_options |-> Range(Normalized(entry[extra_ind])),
                     values |-> <<>>]
        vs == IF t \in DOMAIN old.values THEN old.values[t] ELSE <<>>
        new == [old EXCEPT !.values =
                   [x \in DOMAIN old.values \cup {t} |->
                       IF x = t THEN Append(vs, v) ELSE old.values[x]]]
    IN  [x \in DOMAIN tree \cup {k} |-> IF x = k THEN new ELSE tree[x]]

\* The timestamp strings of the rows: three in the documented zero-padded form
\* and "03 0", the unpadded spelling of "03 00".
T_01_00 == <<0, 1, SP, 0, 0>>
T_03_00 == <<0, 3, SP, 0, 0>>
T_03_12 == <<0, 3, SP, 1, 2>>
T_03_0 == <<0, 3, SP, 0>>

ExtrasChoices ==
    { <<>>, <<"warm">>, <<"cold">>, <<"warm", "live">>,
      <<"warm", "visual">>, <<"visual", "warm">>, <<"warm", "nocondprof">>,
      <<"cold", "fission">>, <<"cold", "webrender">>,
      <<"cold", "fission", "webrender">>,
      <<"warm", "a-b">>, <<"warm", "a", "b">> }

\* Rows that differ in their options (one platform "mac" row for the filter),
\* and rows of one group that differ in test, value and time.
OrgRows == { Row("linux", "a", e, 2, T_01_00, "firefox") : e \in ExtrasChoices }
              \cup { Row("mac", "a", <<"warm">>, 2, T_01_00, "firefox") }
SumRows == { Row("linux", "a", <<"warm">>, x[1], x[2], "firefox") :
                x \in { <<2, T_01_00>>, <<2, T_03_00>>, <<8, T_03_00>>,
                        <<8, T_03_12>>, <<2, T_03_0>> } }
              \cup { Row("linux", "b", <<"warm">>, 2, t, "firefox") :
                        t \in {T_01_00, T_03_00} }

SeqsUpTo(S, n) == UNION { [1..k -> S] : k \in 0..n }

AggrIdle ==
    /\ times = {} /\ span = 24 /\ walk = <<>> /\ curr = <<>>
    /\ aggr_times = <<>> /\ result = <<>> /\ apc = "idle"

Init ==
    /\ \/ /\ \E rows \in SeqsUpTo(OrgRows, MaxOrgRows) : data = <<Header>> \o rows
          /\ platforms \in {<<>>, <<"linux">>}
       \/ /\ \E rows \in SeqsUpTo(SumRows, MaxSumRows) : data = <<Header>> \o rows
          /\ platforms = <<>>
    /\ timespan = 24
    /\ row = 2
    /\ org_data = <<>>
    /\ summary = <<>>
    /\ error = "none"
    /\ reported = {}
    /\ pc = "organize"
    /\ AggrIdle

\* an iteration of the loop of line 65 that ends in a continue
OrganizeSkip ==
    /\ pc = "organize"
    /\ row <= Len(data)
    /\ Skipped(data[row])
    /\ row' = row + 1
    /\ UNCHANGED <<data, platforms, timespan, org_data, summary, error, reported, pc>>
    /\ UNCHANGED aggrVars

\* an iteration that stores the value of the entry
OrganizeStore ==
    /\ pc = "organize"
    /\ row <= Len(data)
    /\ ~Skipped(data[row])
    /\ KeyOf(data[row]) \in DOMAIN org_data =>
          SameOptions(org_data[KeyOf(data[row])], data[row][extra_ind])
    /\ org_data' = Stored(org_data, data[row])
    /\ row' = row + 1
    /\ UNCHANGED <<data, platforms, timespan, summary, error, reported, pc>>
    /\ UNCHANGED aggrVars

\* an iteration whose assert fails (line 119)
OrganizeAssert ==
    /\ pc = "organize"
    /\ row <= Len(data)
    /\ ~Skipped(data[row])
    /\ KeyOf(data[row]) \in DOMAIN org_data
    /\ ~SameOptions(org_data[KeyOf(data[row])], data[row][extra_ind])
    /\ error' = "AssertionError"
    /\ pc' = "failed"
    /\ UNCHANGED <<data, platforms, timespan, row, org_data, summary, reported>>
    /\ UNCHANGED aggrVars

\* line 128: entry[platform_ind] for entry in data (the header row included)
PossiblePlatforms == { data[i][platform_ind] : i \in 1..Len(data) }

\* lines 127-132: nothing was stored
OrganizeRaise ==
    /\ pc = "organize"
    /\ row > Len(data)
    /\ DOMAIN org_data = {}
    /\ reported' = PossiblePlatforms
    /\ error' = "Exception"
    /\ pc' = "failed"
    /\ UNCHANGED <<data, platforms, timespan, row, org_data, summary>>
    /\ UNCHANGED aggrVars

\* line 134
OrganizeReturn ==
    /\ pc = "organize"
    /\ row > Len(data)
    /\ DOMAIN org_data # {}
    /\ pc' = "organized"
    /\ UNCHANGED <<data, platforms, timespan, row, org_data, summary, error, reported>>
    /\ UNCHANGED aggrVars

----------------------------------------------------------------------------
(* geo_mean and summarize *)

\* Numbers.  np.mean of a list is held as the fraction [num, den] of its sum
\* and its length; geo_mean of n such means is held as [num, den, n], standing
\* for (num / den) ** (1.0 / n).
RECURSIVE SumSeq(_)
SumSeq(v) == IF v = <<>> THEN 0 ELSE Head(v) + SumSeq(Tail(v))

\* Mean with the last value in place of the mean.
MeanOfLast(v) == [num |-> v[Len(v)], den |-> 1]

\* np.mean(v), line 196
Mean(v) == [num |-> SumSeq(v), den |-> Len(v)]

\* lines 137-139, for a non-empty list (len(a) = 0 divides by zero)
RECURSIVE geo_mean(_)
geo_mean(a) ==
    IF a = <<>> THEN [num |-> 1, den |-> 1, n |-> 0]
    ELSE LET r == geo_mean(Tail(a))
         IN  [num |-> Head(a).num * r.num, den |-> Head(a).den * r.den, n |-> r.n + 1]

\* The groups of the tree (lines 172-178) and the tests of a group.
Groups(tree) == { <<k[1], k[2], k[3], k[4]>> : k \in DOMAIN tree }
Tests(tree, g) == { k \in DOMAIN tree : <<k[1], k[2], k[3], k[4]>> = g }

\* lines 180-183
AllPushTimes(tree, g) == UNION { DOMAIN tree[k].values : k \in Tests(tree, g) }

\* Python's list < list on lists of strings.
RECURSIVE ListLess(_, _)
ListLess(a, b) ==
    IF b = <<>> THEN FALSE
    ELSE IF a = <<>> THEN TRUE
    ELSE IF Head(a) # Head(b) THEN StrLess(Head(a), Head(b))
    ELSE ListLess(Tail(a), Tail(b))

RECURSIVE InsertList(_, _)
InsertList(s, b) ==
    IF s = <<>> THEN <<b>>
    ELSE IF ListLess(b, Head(s)) THEN <<b>> \o s
    ELSE <<Head(s)>> \o InsertList(Tail(s), b)

\* sorted(all_push_times), line 187
RECURSIVE SortedLists(_)
SortedLists(s) ==
    IF s = <<>> THEN <<>>
    ELSE InsertList(SortedLists(SubSeq(s, 1, Len(s) - 1)), s[Len(s)])

Buckets(tree, g, hours) == SortedLists(temporal_aggregation(AllPushTimes(tree, g), hours))

\* lines 191-194: the loop over the tests for one time of the bucket
RECURSIVE ExtendTests(_, _, _, _)
ExtendTests(vals, time, T, tree) ==
    IF T = {} THEN vals
    ELSE LET k == CHOOSE x \in T : TRUE
             nxt == IF time \notin DOMAIN tree[k].values THEN vals
                    ELSE LET old == IF k \in DOMAIN vals THEN vals[k] ELSE <<>>
                         IN  [x \in DOMAIN vals \cup {k} |->
                                 IF x = k THEN old \o tree[k].values[time] ELSE vals[x]]
         IN  ExtendTests(nxt, time, T \ {k}, tree)

\* lines 189-194: the loop over the times of the bucket
RECURSIVE CollectVals(_, _, _, _)
CollectVals(vals, bucket, T, tree) ==
    IF bucket = <<>> THEN vals
    ELSE CollectVals(ExtendTests(vals, Head(bucket), T, tree), Tail(bucket), T, tree)

\* line 196: the list of the means of the collected lists
RECURSIVE MeansOf(_)
MeansOf(vals) ==
    IF DOMAIN vals = {} THEN <<>>
    ELSE LET k == CHOOSE x \in DOMAIN vals : TRUE
         IN  <<Mean(vals[k])>> \o MeansOf([x \in DOMAIN vals \ {k} |-> vals[x]])

BucketMeans(tree, g, bucket) == MeansOf(CollectVals(<<>>, bucket, Tests(tree, g), tree))

\* line 197: the pair appended for a bucket
Label(bucket) == bucket[Len(bucket)]

Summarized(tree, g, bucket) ==
    [time |-> Label(bucket), value |-> geo_mean(BucketMeans(tree, g, bucket))]

\* lines 186-197: summarized_vals of a group
SummarizedVals(tree, g, hours) ==
    LET bs == Buckets(tree, g, hours)
    IN  [i \in 1..Len(bs) |-> Summarized(tree, g, bs[i])]

\* geo_mean is called with an empty list for some bucket of some group
DividesByZero(tree, hours) ==
    \E g \in Groups(tree) :
        LET bs == Buckets(tree, g, hours)
        IN  \E i \in 1..Len(bs) : BucketMeans(tree, g, bs[i]) = <<>>

\* lines 170-209 when every call of geo_mean returns
SummarizeReturn ==
    /\ pc = "organized"
    /\ ~DividesByZero(org_data, timespan)
    /\ summary' = [g \in Groups(org_data) |-> SummarizedVals(org_data, g, timespan)]
    /\ pc' = "done"
    /\ UNCHANGED <<data, platforms, timespan, row, org_data, error, reported>>
    /\ UNCHANGED aggrVars

\* line 139 with len(a) = 0: 1.0 / 0 raises
SummarizeRaise ==
    /\ pc = "organized"
    /\ DividesByZero(org_data, timespan)
    /\ error' = "ZeroDivisionError"
    /\ pc' = "failed"
    /\ UNCHANGED <<data, platforms, timespan, row, org_data, summary, reported>>
    /\ UNCHANGED aggrVars

Next ==
    \/ OrganizeSkip
    \/ OrganizeStore
    \/ OrganizeAssert
    \/ OrganizeRaise
    \/ OrganizeReturn
    \/ SummarizeReturn
    \/ SummarizeRaise

Spec == Init /\ [][Next]_vars

----------------------------------------------------------------------------
(* Claims about temporal_aggregation, checked under SpecAggr *)

AllCanonical == \A t \in times : IsCanonical(t)

\* Number of places of the returned list that hold the string t.
Occurrences(t) ==
    Cardinality({ p \in (1..Len(result)) \X (1..MaxTimes + 1) :
                    p[2] <= Len(result[p[1]]) /\ result[p[1]][p[2]] = t })

RECURSIVE Flatten(_)
Flatten(bs) == IF bs = <<>> THEN <<>> ELSE Head(bs) \o Flatten(Tail(bs))

\* C1: the returned buckets partition the input: every input timestamp occurs
\* in exactly one place of the returned list, the members of the bucket still
\* open at the end of the walk included.
C1_Partition ==
    (apc = "done" /\ AllCanonical) => \A t \in times : Occurrences(t) = 1

\* C4: during the walk a timestamp joins the open bucket exactly when the gap
\* between the bucket's first-added member and the timestamp is strictly less
\* than timespan hours; otherwise the open bucket is closed and a new one opens
\* with that timestamp.  For zero-padded timestamps the first-added member is
\* the newest member, and every member is less than timespan hours older.
C4_JoinRule ==
    /\ [](AllCanonical =>
            \A i \in 1..Len(curr) : curr[i] <= curr[1] /\ curr[1] - curr[i] < span)
    /\ [][ (apc = "walk" /\ walk # <<>> /\ curr # <<>>) =>
             LET dt == Strptime(Head(walk))
                 closed == [i \in 1..Len(curr) |-> Strftime(curr[i])]
             IN  IF curr[1] - dt < span
                 THEN curr' = Append(curr, dt) /\ aggr_times' = aggr_times
                 ELSE curr' = <<dt>> /\ aggr_times' = Append(aggr_times, closed) ]_vars

\* With timespan = 24: a closed bucket whose two members are 23 hours apart, and
\* a new bucket opened by the timestamp exactly 24 hours older than its newest.
C4_Witness ==
    /\ apc = "walk" /\ span = 24 /\ AllCanonical
    /\ Len(aggr_times) = 1 /\ Len(aggr_times[1]) = 2
    /\ Strptime(aggr_times[1][1]) - Strptime(aggr_times[1][2]) = 23
    /\ Len(curr) = 1
    /\ Strptime(aggr_times[1][1]) - curr[1] = 24

\* C5: the buckets are listed oldest bucket first and each bucket lists its own
\* members oldest to newest: concatenating the returned buckets in output order yields
\* timestamps in non-decreasing chronological order.
C5_Chronological ==
    (apc = "done" /\ AllCanonical) =>
        LET f == Flatten(result)
        IN  \A i \in 1..Len(f), j \in 1..Len(f) :
                i < j => Strptime(f[i]) <= Strptime(f[j])

----------------------------------------------------------------------------
(* Claims about organize_data and summarize, checked under Spec *)

\* A data row survives the filters: it passes the platform filter when one is
\* configured, has "warm" or "cold" among its options, and has not "live".
Survives(entry) ==
    /\ platforms = <<>> \/ entry[platform_ind] \in Range(platforms)
    /\ "warm" \in Range(entry[extra_ind]) \/ "cold" \in Range(entry[extra_ind])
    /\ "live" \notin Range(entry[extra_ind])

\* The values of the rows data[i], i in I, in the order of the rows.
RECURSIVE ValuesOfRows(_)
ValuesOfRows(I) ==
    IF I = {} THEN <<>>
    ELSE LET m == CHOOSE i \in I : \A j \in I : j <= i
         IN  Append(ValuesOfRows(I \ {m}), data[m][val_ind])

StoredAt(k, t) ==
    IF k \in DOMAIN org_data /\ t \in DOMAIN org_data[k].values
    THEN org_data[k].values[t] ELSE <<>>

RECURSIVE TotalLen(_, _)
TotalLen(f, D) ==
    IF D = {} THEN 0
    ELSE LET x == CHOOSE y \in D : TRUE IN Len(f[x]) + TotalLen(f, D \ {x})

RECURSIVE TotalStored(_)
TotalStored(K) ==
    IF K = {} THEN 0
    ELSE LET k == CHOOSE y \in K : TRUE
         IN  TotalLen(org_data[k].values, DOMAIN org_data[k].values) + TotalStored(K \ {k})

\* C6: after organize_data completes without error every surviving data row
\* has its value stored exactly once, in the leaf of its path and timestamp;
\* no other row contributes a value, so the number of stored values is the
\* number of surviving rows.
C6_StoredOnce ==
    pc = "organized" =>
        LET S == { i \in 2..Len(data) : Survives(data[i]) }
            At(k, t) == { i \in S : KeyOf(data[i]) = k /\ data[i][time_ind] = t }
        IN  /\ \A i \in S :
                  StoredAt(KeyOf(data[i]), data[i][time_ind])
                      = ValuesOfRows(At(KeyOf(data[i]), data[i][time_ind]))
            /\ \A k \in DOMAIN org_data : \A t \in DOMAIN org_data[k].values :
                  At(k, t) # {}
            /\ TotalStored(DOMAIN org_data) = Cardinality(S)

\* a row that is stored next to a live-site row that is passed over
C6_Witness ==
    /\ pc = "organized"
    /\ Len(data) = 3
    /\ TotalStored(DOMAIN org_data) = 1
    /\ \E i \in 2..Len(data) : "live" \in Range(data[i][extra_ind])

\* The label of the claim: no separator between "fission" and "webrender".
LabelNoSeparator(extras) ==
    IF "fission" \notin Range(extras) /\ "webrender" \notin Range(extras)
    THEN S_e10s
    ELSE (IF "fission" \in Range(extras) THEN S_fission ELSE <<>>)
           \o (IF "webrender" \in Range(extras) THEN S_webrender ELSE <<>>)

\* The label with the hyphen that follows "fission".
LabelDash(extras) ==
    IF "fission" \notin Range(extras) /\ "webrender" \notin Range(extras)
    THEN S_e10s
    ELSE (IF "fission" \in Range(extras) THEN S_fission_dash ELSE <<>>)
           \o (IF "webrender" \in Range(extras) THEN S_webrender ELSE <<>>)

Processed == { i \in 2..(row - 1) : Survives(data[i]) }

\* C7 as stated: the variant label of every surviving row is "e10s" when its
\* options hold neither "fission" nor "webrender", and otherwise "fission" (if
\* present) followed without a separator by "webrender" (if present); it is
\* one of "e10s", "fission", "webrender", "fissionwebrender".
C7_LabelNoSeparator ==
    /\ \A i \in Processed :
          [KeyOf(data[i]) EXCEPT ![3] = LabelNoSeparator(data[i][extra_ind])]
              \in DOMAIN org_data
    /\ \A k \in DOMAIN org_data :
          k[3] \in {S_e10s, S_fission, S_webrender, S_fission \o S_webrender}

\* C7 as amended: the label is "e10s" when the options hold neither "fission"
\* nor "webrender", and otherwise "fission-" (if "fission" is present) followed
\* by "webrender" (if present); it is one of "e10s", "fission-", "webrender",
\* "fission-webrender".
C7_LabelDash ==
    /\ \A i \in Processed :
          [KeyOf(data[i]) EXCEPT ![3] = LabelDash(data[i][extra_ind])]
              \in DOMAIN org_data
    /\ \A k \in DOMAIN org_data :
          k[3] \in {S_e10s, S_fission_dash, S_webrender, S_fission_dash \o S_webrender}

C7_Witness ==
    /\ pc = "organized"
    /\ \E k \in DOMAIN org_data : k[3] = S_fission_dash \o S_webrender
    /\ \E k \in DOMAIN org_data : k[3] = S_fission_dash

\* C8: the consistency check compares the normalized options as sets: every
\* row stored in a leaf has the normalized option set of the leaf (so rows
\* with the tokens in another order accumulate), and the run is aborted by
\* the check only for a row that reaches an existing leaf with another set.
C8_SameOptionSet ==
    /\ \A i \in Processed :
          /\ KeyOf(data[i]) \in DOMAIN org_data
          /\ org_data[KeyOf(data[i])].extra_options = Range(Normalized(data[i][extra_ind]))
    /\ error = "AssertionError" =>
          /\ Survives(data[row])
          /\ KeyOf(data[row]) \in DOMAIN org_data
          /\ org_data[KeyOf(data[row])].extra_options
                # Range(Normalized(data[row][extra_ind]))
    /\ \A i \in Processed, j \in Processed :
          KeyOf(data[i]) = KeyOf(data[j]) =>
              Range(Normalized(data[i][extra_ind])) = Range(Normalized(data[j][extra_ind]))

\* two rows of one leaf whose normalized options are the same tokens in
\* different orders
C8_Witness ==
    /\ pc = "organized"
    /\ \E i \in Processed, j \in Processed :
          /\ i < j
          /\ KeyOf(data[i]) = KeyOf(data[j])
          /\ Normalized(data[i][extra_ind]) # Normalized(data[j][extra_ind])
          /\ Len(StoredAt(KeyOf(data[i]), data[i][time_ind])) = 2

\* C9: organize_data fails exactly when no data row survives the filters, and
\* the set it then reports is the set of the distinct platform values of the
\* data rows of the input.
C9_ReportedPlatforms ==
    /\ error = "Exception" =>
          /\ \A i \in 2..Len(data) : ~Survives(data[i])
          /\ reported = { data[i][platform_ind] : i \in 2..Len(data) }
    /\ pc = "organized" => \E i \in 2..Len(data) : Survives(data[i])

\* The buckets summarize processes for a group, in the order it processes them.
ProcessedBuckets(g) == Buckets(org_data, g, timespan)

\* Every push timestamp of the input is in the documented zero-padded form.
WellFormedTimes == \A i \in 2..Len(data) : IsCanonical(data[i][time_ind])

\* C2: the timestamp of the pair emitted for a bucket is the newest timestamp
\* of the bucket.
C2_NewestLabel ==
    (pc = "done" /\ WellFormedTimes) =>
        \A g \in DOMAIN summary : \A i \in 1..Len(summary[g]) :
            \A j \in 1..Len(ProcessedBuckets(g)[i]) :
                Strptime(ProcessedBuckets(g)[i][j]) <= Strptime(summary[g][i].time)

\* The tests of group g that have a value at a timestamp of the bucket b.
Contributing(g, b) ==
    { k \in Tests(org_data, g) : \E j \in 1..Len(b) : b[j] \in DOMAIN org_data[k].values }

\* The sum and the number of the values of test k at the timestamps listed in b.
RECURSIVE PooledSum(_, _)
PooledSum(k, b) ==
    IF b = <<>> THEN 0
    ELSE (IF Head(b) \in DOMAIN org_data[k].values
          THEN SumSeq(org_data[k].values[Head(b)]) ELSE 0) + PooledSum(k, Tail(b))

RECURSIVE PooledCount(_, _)
PooledCount(k, b) ==
    IF b = <<>> THEN 0
    ELSE (IF Head(b) \in DOMAIN org_data[k].values
          THEN Len(org_data[k].values[Head(b)]) ELSE 0) + PooledCount(k, Tail(b))

RECURSIVE ProductOfSums(_, _)
ProductOfSums(K, b) ==
    IF K = {} THEN 1
    ELSE LET k == CHOOSE x \in K : TRUE IN PooledSum(k, b) * ProductOfSums(K \ {k}, b)

RECURSIVE ProductOfCounts(_, _)
ProductOfCounts(K, b) ==
    IF K = {} THEN 1
    ELSE LET k == CHOOSE x \in K : TRUE IN PooledCount(k, b) * ProductOfCounts(K \ {k}, b)

\* C3: the summary value of a bucket is the geometric mean, over exactly the
\* tests that have a value at a timestamp of the bucket, of the arithmetic
\* mean of the values of the test pooled over the timestamps the bucket lists;
\* a test without a value in the bucket contributes nothing.  (The fractions
\* are compared by cross-multiplication.)
C3_GeomeanOfMeans ==
    pc = "done" =>
        /\ DOMAIN summary = Groups(org_data)
        /\ \A g \in DOMAIN summary :
              /\ Len(summary[g]) = Len(ProcessedBuckets(g))
              /\ \A i \in 1..Len(summary[g]) :
                    LET b == ProcessedBuckets(g)[i]
                        K == Contributing(g, b)
                        v == summary[g][i].value
                    IN  /\ v.n = Cardinality(K)
                        /\ v.n > 0
                        /\ v.num * ProductOfCounts(K, b) = ProductOfSums(K, b) * v.den

\* a bucket of two timestamps at both of which one test has a value (two
\* different values), in a group with a test that has no value in the bucket
C3_Witness ==
    /\ pc = "done"
    /\ \E g \in DOMAIN summary : \E i \in 1..Len(summary[g]) :
          LET b == ProcessedBuckets(g)[i]
          IN  /\ Len(b) = 2 /\ b[1] # b[2]
              /\ \E k \in Tests(org_data, g) :
                    /\ b[1] \in DOMAIN org_data[k].values
                    /\ b[2] \in DOMAIN org_data[k].values
                    /\ org_data[k].values[b[1]] # org_data[k].values[b[2]]
              /\ Tests(org_data, g) \ Contributing(g, b) # {}

\* C10: for every group and every bucket summarize processes, some test of
\* the group has a value at a timestamp of the bucket, so geo_mean is never
\* computed over zero per-test means.
C10_NoEmptyBucket ==
    /\ error # "ZeroDivisionError"
    /\ pc = "organized" =>
          \A g \in Groups(org_data) :
              \A i \in 1..Len(ProcessedBuckets(g)) :
                  Contributing(g, ProcessedBuckets(g)[i]) # {}

====
